---- MODULE Spec2Model ----
(***************************************************************************)
(* Layered animation engine of dial-up.                                    *)
(*                                                                         *)
(*   - the ambient (background / mist) DOM layer renderer                  *)
(*       src/src/strategies/renderers/samples.js, createDomLayerRenderer   *)
(*   - the samples layer renderer and its sequence allocator               *)
(*       src/src/strategies/renderers/samples.js, samplesLayerRenderer     *)
(*   - the page re-render of src/src/index.js, renderPage                  *)
(*                                                                         *)
(* Timers, image-load events and animation frames are callbacks of a       *)
(* single-threaded event loop: each one is an atomic action, and they      *)
(* interleave freely.  Timers started together with growing delays         *)
(* (i * 500, i * 250) fire in the order of their delays, and a hold timer  *)
(* (5 - 12 s) fires after every stagger or replacement timer (at most 1 s) *)
(* that was started before it: the event loop runs a timer after the       *)
(* timers started earlier with an equal or smaller delay.  The code finds  *)
(* an element by identity and a file by name, never by its place in        *)
(* activeElements, so the elements are kept as a bag of records.           *)
(*                                                                         *)
(* Opacity is kept in integer units, 0 .. OpMax (OpMax is opacity 1.0).    *)
(* One frame changes it by delta * opacityChangeRate, drawn from a small   *)
(* set of steps; in the hold phase (rate 0.00001, "virtually paused") the   *)
(* whole 5 - 12 s pause moves it by less than 0.01, that is by no unit.    *)
(***************************************************************************)
EXTENDS Integers, Sequences, FiniteSets, Bags, TLC

\* ------------------------------------------------------------------ bounds
MaxFiles == 4
MaxCreated == 6
MaxTeardownCreated == 3
MaxSampleFiles == 4
MaxLoop == 8
MaxCleanups == 2
MaxRenders == 2
MaxResizeCreated == 3
MaxLiveCreated == 5
MaxDetachCreated == 3
MaxLayerFiles == 2
MaxLayerCreated == 3
MaxValid == 60
MaxSprites == 3
MaxTicks == 3
MaxRange == 2
MaxSkew == 2
MaxDraws == 2
MaxDelta == 3
MaxFrames == 6
MaxDrags == 1
PosCap == 1
MaxTimers == 2
MaxMove == 2
MaxTextureUpdates == 2
MaxPending == 2

\* ------------------------------------------------------- program constants
maxElements == 3
\* opacity 1.0 and the initial opacity (0.05 - 0.2), in opacity units
OpMax == 2
InitialOpacity == 1
\* z-index of the PixiJS canvas element
canvasZIndex == 2001
\* the image limit of the first variant of samplesLayerRenderer
firstLimit == 10
\* DEFAULT_PANEL_WIDTH of the splash panel (600), in the units of its widths
DEFAULT_PANEL_WIDTH == 3
\* the default of the constructor parameter openX
OPEN_X == 0
\* the number of mixes
MIX_COUNT == 40
\* the number 1.0 of randn_bm, in the units its numbers are kept in (quarters)
Unit == 4

VARIABLES
  \* ambient layer (createDomLayerRenderer)
  validFiles,       \* files.filter(file => file && file.filename)
  shuffledFiles,    \* shuffleArray(validFiles); a file is named by its rank here
  activeElements,   \* elements tracked, in step with layerContainer's children (a bag)
  filePool,         \* rotation pool
  staggerFired,     \* how many initial stagger timers have fired
  replTimers,       \* pending replacement timers: a bag of batches
  inDocument,       \* layerContainer is attached to document.body
  cleanupCalled,    \* cleanup() of this layer has run
  cleanupAttached,  \* container.cleanup has been set by the renderer
  viewportWidth,    \* window.innerWidth, in px
  budget,           \* elements the run may still create
  epoch,            \* hold timers started so far
  calls,            \* addReplacementElement / removeChild calls of the last callback, in order
  \* samples layer (samplesLayerRenderer)
  samplesFiles,     \* validFiles: files.filter(file => file && file.texture), by file.id
  fileSequence,     \* the shuffled sequence the allocator walks
  sequenceIndex,    \* next place in fileSequence, from 0
  displayedFileIds, \* ids of the files on display
  activeImages,     \* the images tracked, oldest first
  containerImages,  \* ids of the imgs that are children of samplesContainer
  intervals,        \* container._intervals: "set" while both intervals run, else "null"
  samplesInDocument, \* samplesContainer is attached to document.body
  samplesError,     \* a handler of the layer has thrown
  cleanups,         \* calls of cleanup() so far
  lastCall,         \* the getNextFile call of the last callback, if it made one,
                    \* and the file of the image removeRandomImage took out in it
  cursorAtEnd,      \* the cursor has gone past the last entry since the last shuffle
  \* page (index.js)
  renders,          \* the renderPage calls so far: where each one stands
  pageLayers,       \* the DOM layers created so far
  resizeTimeout,    \* the debounce timer of window.onresize is pending
  backgroundContainer, \* the PixiJS layer containers attached to backgroundContainer
  pageError,        \* an error has come out of a renderPage call
  \* randn_bm
  sample,           \* the last randn_bm call: its arguments, deviates and value
  \* the samples layer's limit, painters, panel and navigation
  limit,            \* the image limit a samples renderer has computed
  ticker,           \* the ticker callback of a painted sprite
  motion,           \* offsets and directions of an ambient element in animate
  sprite,           \* a MovingSpritePainter and its sprite
  splash,           \* a SplashPainter panel
  hash              \* window.location.hash, the player and the changeMix calls

ambVars == << validFiles, shuffledFiles, activeElements, filePool,
              staggerFired, replTimers, inDocument, cleanupCalled, cleanupAttached,
              viewportWidth, budget, epoch, calls >>

samVars == << samplesFiles, fileSequence, sequenceIndex, displayedFileIds,
              activeImages, containerImages, intervals, samplesInDocument,
              samplesError, cleanups, lastCall, cursorAtEnd >>

pageVars == << renders, pageLayers, resizeTimeout, backgroundContainer, pageError >>

rndVars == << sample >>

extVars == << limit, ticker, motion, sprite, splash, hash >>

vars == << ambVars, samVars, pageVars, rndVars, extVars >>

\* ----------------------------------------------------------------- helpers
\* getNextFile returned null
NoFile == 0

NoCall == [ called |-> FALSE, before |-> {}, after |-> {}, file |-> NoFile,
            steps |-> 0, diverged |-> FALSE, reshuffled |-> FALSE,
            createThrew |-> FALSE, removed |-> NoFile ]

\* no randn_bm call made
NoSample == [ min |-> 0, max |-> 0, skew |-> 1, draws |-> << >>, value |-> 0 ]

\* no limit computed, no sprite painted, no element moving, no panel, no hash
NoLimit == [ variant |-> "none", n |-> 0, max |-> 0 ]

NoTicker == [ sprites |-> << >>, ticks |-> 0 ]

\* no element moving
NoMotion ==
  [ imgWidth |-> 0, imgHeight |-> 0, posX |-> 0, posY |-> 0,
    moveDirectionX |-> 0, moveDirectionY |-> 0, frames |-> 0 ]

\* no MovingSpritePainter constructed
NoSprite ==
  [ surfaceWidth |-> 0, surfaceHeight |-> 0, width |-> 0, height |-> 0,
    x |-> 0, y |-> 0, xChange |-> 0, yChange |-> 0, dragging |-> FALSE,
    dragPoint |-> [ x |-> 0, y |-> 0 ], dragStartPosition |-> [ x |-> 0, y |-> 0 ],
    drags |-> 0 ]

\* no SplashPainter constructed
NoSplash ==
  [ width |-> 0, listener |-> FALSE, x |-> 0, targetX |-> 0, state |-> "none",
    autoCloseTimeoutId |-> 0, autoCloseScheduled |-> FALSE, timers |-> {},
    nextId |-> 0, updates |-> 0, last |-> "none", stale |-> {},
    staleClosed |-> FALSE ]

\* no page with a hash
NoHash ==
  [ location |-> << >>, scPlayer |-> FALSE, isPlaying |-> FALSE, pending |-> << >>,
    last |-> [ difference |-> 0, before |-> << >> ] ]

\* no number drawn, and nothing of the rest of the page
NoRandn ==
  /\ sample = NoSample
  /\ limit = NoLimit
  /\ ticker = NoTicker
  /\ motion = NoMotion
  /\ sprite = NoSprite
  /\ splash = NoSplash
  /\ hash = NoHash

\* no page around the layer
NoPage ==
  /\ renders = << >>
  /\ pageLayers = {}
  /\ resizeTimeout = FALSE
  /\ backgroundContainer = {}
  /\ pageError = FALSE

\* no samples layer on the page
NoSamples ==
  /\ samplesFiles = << >>
  /\ fileSequence = << >>
  /\ sequenceIndex = 0
  /\ displayedFileIds = {}
  /\ activeImages = << >>
  /\ containerImages = {}
  /\ intervals = "null"
  /\ samplesInDocument = FALSE
  /\ samplesError = FALSE
  /\ cleanups = 0
  /\ lastCall = NoCall
  /\ cursorAtEnd = FALSE

Min(a, b) == IF a < b THEN a ELSE b

Max(a, b) == IF a > b THEN a ELSE b

Range(s) == { s[i] : i \in 1..Len(s) }

RemoveAt(s, i) == SubSeq(s, 1, i - 1) \o SubSeq(s, i + 1, Len(s))

\* a search that finds no entry
FindIndexNone(s, name) == 0

\* findIndex(f => f.filename === name): least index with that name, 0 when none
FindIndex(s, name) ==
  IF \E i \in 1..Len(s) : s[i] = name
  THEN CHOOSE i \in 1..Len(s) : s[i] = name /\ \A j \in 1..(i - 1) : s[j] # name
  ELSE 0

\* Array.prototype.filter on a sequence
RECURSIVE SelectSeqBy(_, _)
SelectSeqBy(s, keep) ==
  IF s = << >> THEN << >>
  ELSE IF Head(s) \in keep THEN << Head(s) >> \o SelectSeqBy(Tail(s), keep)
       ELSE SelectSeqBy(Tail(s), keep)

\* shuffleArray: every permutation of the array can come out
shuffleArray(array) ==
  { [ i \in 1..Len(array) |-> array[f[i]] ] : f \in Permutations(1..Len(array)) }

\* ================================================================ AMBIENT
\* createDomLayerRenderer(layerType): background and mist layers

\* The file lists a renderer can be handed: 0 .. MaxFiles distinct valid files.
\* validFiles is read only through shuffleArray (the initial shuffle, and the
\* filter-then-shuffle of a refill), so its own order is immaterial and the
\* files are named by their rank in the initial shuffle.
FileLists == { [i \in 1..n |-> i] : n \in 0..MaxFiles }

\* maxOpacity: 1.0 for background, 0.8 + Math.random() * 0.2 for mist; in
\* opacity units both are OpMax, and the two layer types then differ only in
\* constants the lifecycle does not read (z-index, blend mode, speed)
Ceilings == { OpMax }

\* frames whose opacity change may have either sign
StepsSigned(rate) == { -1, 1 }

\* delta * opacityChangeRate of one frame, by the rate in force
StepsFor(rate) == IF rate = "slow" THEN { 0 } ELSE 1..OpMax

One(x) == SetToBag({ x })

Replace(B, old, new) == (B (-) One(old)) (+) One(new)

\* window.innerWidth before and after a resize, in px
ViewportWidths == { 1000, 2000 }

\* imgWidth of img.onload for the background layer: img.naturalWidth * scale,
\* scale being viewportWidth * 1.2 / img.naturalWidth at the least random
\* factor, for an image no wider than that
scaledWidth(width) == ( width * 12 ) \div 10

\* bounceThresholdX of animate for the background layer: imgWidth * 0.4
bounceThresholdX(e) == ( e.imgWidth * 4 ) \div 10

\* an element whose first frame is requested on creation
NewElementAnimating(file) ==
  [ file |-> file, load |-> "pending", raf |-> TRUE, op |-> 0,
    rising |-> TRUE, rate |-> "rise", hold |-> 0, imgWidth |-> 0 ]

\* the element as addLayerElement leaves it: attached, opacity '0', no frame
\* requested until img.onload; hold is 0 while no hold timer is pending, and
\* else the epoch the pending hold timer was started in
NewElement(file) ==
  [ file |-> file, load |-> "pending", raf |-> FALSE, op |-> 0,
    rising |-> TRUE, rate |-> "rise", hold |-> 0, imgWidth |-> 0 ]

\* the part of the layer a callback works on
Layer ==
  [ activeElements |-> activeElements, filePool |-> filePool,
    replTimers |-> replTimers, calls |-> << >> ]

addLayerElement(L, file) ==
  [ L EXCEPT !.activeElements = @ (+) One(NewElement(file)) ]

\* a selector that matches nothing
currentCountNoMatch(L) == 0

\* document.querySelectorAll(`img[data-layer-type="${layerType}"]`).length
currentCount(L) == IF inDocument THEN BagCardinality(L.activeElements) ELSE 0

\* a reshuffle without the fallback to all the files
RefillSourceNoFallback(L) ==
  LET activeFileNames == { e.file : e \in BagToSet(L.activeElements) }
  IN SelectSeqBy(validFiles, Range(validFiles) \ activeFileNames)

\* the files a reshuffle draws from
RefillSource(L) ==
  LET activeFileNames == { e.file : e \in BagToSet(L.activeElements) }
      availableFiles == SelectSeqBy(validFiles, Range(validFiles) \ activeFileNames)
  IN IF Len(availableFiles) > 0 THEN availableFiles ELSE validFiles

NeedsRefill(L) ==
  /\ currentCount(L) < maxElements
  /\ Len(L.filePool) < maxElements - currentCount(L)

\* the outcomes of the shuffleArray call addReplacementElement may make
RefillChoices(L) ==
  IF NeedsRefill(L) THEN shuffleArray(RefillSource(L)) ELSE { << >> }

\* addReplacementElement, sh being what its shuffleArray call returned
addReplacementElement(L, sh) ==
  LET L0 == [ L EXCEPT !.calls = Append(@, "addReplacementElement") ]
  IN IF currentCount(L) >= maxElements THEN L0
     ELSE LET elementsToAdd == maxElements - currentCount(L)
              pool == IF Len(L.filePool) < elementsToAdd
                      THEN L.filePool \o sh ELSE L.filePool
              k == Min(elementsToAdd, Len(pool))
          IN [ L0 EXCEPT
                 !.filePool = SubSeq(pool, k + 1, Len(pool)),
                 !.replTimers =
                   IF k > 0
                   THEN @ (+) One([ files |-> SubSeq(pool, 1, k), started |-> epoch ])
                   ELSE @ ]

\* img.parentNode.removeChild(img) and activeElements.splice(index, 1)
removeElement(L, e) ==
  [ L EXCEPT !.activeElements = @ (-) One(e),
             !.calls = Append(@, "removeChild") ]

\* removal first, replacement second
fadeOutRemoveFirst(L, e, sh) == addReplacementElement(removeElement(L, e), sh)

\* the fade-out branch of animate once currentOpacity <= 0
fadeOutComplete(L, e, sh) == removeElement(addReplacementElement(L, sh), e)

Commit(L) ==
  /\ activeElements' = L.activeElements
  /\ filePool' = L.filePool
  /\ replTimers' = L.replTimers
  /\ calls' = L.calls

\* the renderer has run: layerContainer is in the document; with no valid
\* file it has returned there, else the timers are set, cleanup is attached
\* and nothing is created yet
Rendered(n) ==
  /\ validFiles \in FileLists
  /\ shuffledFiles = validFiles
  /\ activeElements = EmptyBag
  /\ filePool = shuffledFiles
  /\ staggerFired = 0
  /\ replTimers = EmptyBag
  /\ inDocument = TRUE
  /\ cleanupCalled = FALSE
  /\ cleanupAttached = ( Len(validFiles) # 0 )
  /\ viewportWidth \in ViewportWidths
  /\ budget = n
  /\ epoch = 0
  /\ calls = << >>

\* setTimeout(..., i * 500) of the initial population
StaggerTimer ==
  /\ staggerFired < Min(maxElements, Len(shuffledFiles))
  /\ budget > 0
  /\ LET file == shuffledFiles[staggerFired + 1]
         L1 == addLayerElement(Layer, file)
         index == FindIndex(filePool, file)
     IN Commit([ L1 EXCEPT !.filePool = IF index # 0 THEN RemoveAt(@, index) ELSE @ ])
  /\ staggerFired' = staggerFired + 1
  /\ budget' = budget - 1
  /\ UNCHANGED << samVars, pageVars, rndVars, extVars, cleanupAttached, viewportWidth,
                  validFiles, shuffledFiles, inDocument,
                  cleanupCalled, epoch >>

\* setTimeout(..., i * 250) of addReplacementElement: the head of a batch
ReplacementTimer ==
  \E batch \in BagToSet(replTimers) :
    /\ budget > 0
    /\ LET L1 == addLayerElement(Layer, Head(batch.files))
           rest == IF Len(batch.files) = 1 THEN EmptyBag
                   ELSE One([ batch EXCEPT !.files = Tail(@) ])
       IN Commit([ L1 EXCEPT !.replTimers = (@ (-) One(batch)) (+) rest ])
    /\ budget' = budget - 1
    /\ UNCHANGED << samVars, pageVars, rndVars, extVars, cleanupAttached, viewportWidth,
                    validFiles, shuffledFiles, staggerFired,
                    inDocument, cleanupCalled,
                    epoch >>

\* img.onload: size and position are computed, the first frame is requested
ImgOnload ==
  \E e \in BagToSet(activeElements) :
    /\ e.load = "pending"
    /\ activeElements' = Replace(activeElements, e,
         [ e EXCEPT !.load = "loaded", !.op = InitialOpacity, !.raf = TRUE,
                    !.imgWidth = scaledWidth(viewportWidth) ])
    /\ calls' = << >>
    /\ UNCHANGED << samVars, pageVars, rndVars, extVars, cleanupAttached, viewportWidth,
                    validFiles, shuffledFiles, filePool, staggerFired,
                    replTimers, inDocument, cleanupCalled, budget, epoch >>

\* img.onerror: logs only
ImgOnerror ==
  \E e \in BagToSet(activeElements) :
    /\ e.load = "pending"
    /\ activeElements' = Replace(activeElements, e, [ e EXCEPT !.load = "failed" ])
    /\ calls' = << >>
    /\ UNCHANGED << samVars, pageVars, rndVars, extVars, cleanupAttached, viewportWidth,
                    validFiles, shuffledFiles, filePool, staggerFired,
                    replTimers, inDocument, cleanupCalled, budget, epoch >>

\* animate(timestamp), opacity increasing
AnimateRising ==
  \E e \in BagToSet(activeElements) :
    /\ e.raf /\ e.rising
    /\ \E step \in StepsFor(e.rate), maxOpacity \in Ceilings :
         /\ activeElements' = Replace(activeElements, e,
           IF e.op + step >= maxOpacity
           THEN [ e EXCEPT !.op = maxOpacity, !.rising = FALSE,
                           !.rate = "slow", !.hold = epoch + 1 ]
           ELSE [ e EXCEPT !.op = e.op + step ])
         /\ epoch' = IF e.op + step >= maxOpacity THEN epoch + 1 ELSE epoch
    /\ calls' = << >>
    /\ UNCHANGED << samVars, pageVars, rndVars, extVars, cleanupAttached, viewportWidth,
                    validFiles, shuffledFiles, filePool, staggerFired,
                    replTimers, inDocument, cleanupCalled, budget >>

\* animate(timestamp), opacity decreasing and still positive afterwards
AnimateFalling ==
  \E e \in BagToSet(activeElements) :
    /\ e.raf /\ ~e.rising
    /\ \E step \in StepsFor(e.rate) :
         /\ e.op - step > 0
         /\ activeElements' = Replace(activeElements, e, [ e EXCEPT !.op = @ - step ])
    /\ calls' = << >>
    /\ UNCHANGED << samVars, pageVars, rndVars, extVars, cleanupAttached, viewportWidth,
                    validFiles, shuffledFiles, filePool, staggerFired,
                    replTimers, inDocument, cleanupCalled, budget, epoch >>

\* a frame that removes its element whatever its direction and opacity
AnimateFadeOutEarly ==
  \E e \in BagToSet(activeElements) :
    /\ e.raf
    /\ \E sh \in RefillChoices(Layer) : Commit(fadeOutComplete(Layer, e, sh))
    /\ UNCHANGED << samVars, pageVars, rndVars, extVars, cleanupAttached, viewportWidth,
                    validFiles, shuffledFiles, staggerFired,
                    inDocument, cleanupCalled, budget, epoch >>

\* a fade-out that also strikes its file from the samples layer's displayed set
AnimateFadeOutShared ==
  \E e \in BagToSet(activeElements) :
    /\ e.raf /\ ~e.rising
    /\ \E step \in StepsFor(e.rate) : e.op - step <= 0
    /\ \E sh \in RefillChoices(Layer) : Commit(fadeOutComplete(Layer, e, sh))
    /\ displayedFileIds' = displayedFileIds \ { e.file }
    /\ UNCHANGED << pageVars, rndVars, extVars, cleanupAttached, viewportWidth,
                    validFiles, shuffledFiles, staggerFired,
                    inDocument, cleanupCalled, budget, epoch,
                    samplesFiles, fileSequence, sequenceIndex, activeImages,
                    containerImages, intervals, samplesInDocument, samplesError,
                    cleanups, lastCall, cursorAtEnd >>

\* animate(timestamp), opacity decreasing and reaching 0: replace, then remove
AnimateFadeOut ==
  \E e \in BagToSet(activeElements) :
    /\ e.raf /\ ~e.rising
    /\ \E step \in StepsFor(e.rate) : e.op - step <= 0
    /\ \E sh \in RefillChoices(Layer) : Commit(fadeOutComplete(Layer, e, sh))
    /\ UNCHANGED << samVars, pageVars, rndVars, extVars, cleanupAttached, viewportWidth,
                    validFiles, shuffledFiles, staggerFired,
                    inDocument, cleanupCalled, budget, epoch >>

\* a hold timer started in epoch h is due: the stagger and replacement
\* timers started before it have fired
HoldDue(h) ==
  /\ staggerFired = Min(maxElements, Len(shuffledFiles))
  /\ \A batch \in BagToSet(replTimers) : batch.started >= h

\* a hold timer that leaves the rate of the pause in force
HoldTimerKeepsRate ==
  \E e \in BagToSet(activeElements) :
    /\ e.hold > 0
    /\ HoldDue(e.hold)
    /\ activeElements' = Replace(activeElements, e, [ e EXCEPT !.hold = 0 ])
    /\ calls' = << >>
    /\ UNCHANGED << samVars, pageVars, rndVars, extVars, cleanupAttached, viewportWidth,
                    validFiles, shuffledFiles, filePool, staggerFired,
                    replTimers, inDocument, cleanupCalled, budget, epoch >>

\* the 5-12 s timer set on reaching the ceiling
HoldTimer ==
  \E e \in BagToSet(activeElements) :
    /\ e.hold > 0
    /\ HoldDue(e.hold)
    /\ activeElements' = Replace(activeElements, e,
         [ e EXCEPT !.hold = 0, !.rate = IF ~e.rising THEN "fall" ELSE @ ])
    /\ calls' = << >>
    /\ UNCHANGED << samVars, pageVars, rndVars, extVars, cleanupAttached, viewportWidth,
                    validFiles, shuffledFiles, filePool, staggerFired,
                    replTimers, inDocument, cleanupCalled, budget, epoch >>

\* cancelAnimationFrame for every frame id: no element has a frame pending
CancelFrames(B) ==
  LET S == { [ e EXCEPT !.raf = FALSE ] : e \in BagToSet(B) }
  IN [ x \in S |-> CopiesIn(x, B) + CopiesIn([ x EXCEPT !.raf = TRUE ], B) ]

\* cleanup(): cancel the animation frames, detach layerContainer
AmbientCleanup ==
  /\ cleanupAttached
  /\ activeElements' = CancelFrames(activeElements)
  /\ inDocument' = FALSE
  /\ cleanupCalled' = TRUE
  /\ calls' = << >>
  /\ UNCHANGED << samVars, pageVars, rndVars, extVars, cleanupAttached, viewportWidth,
                  validFiles, shuffledFiles, filePool, staggerFired,
                  replTimers, budget, epoch >>

\* the window is resized to another width
ViewportResize ==
  /\ \E width \in ViewportWidths \ { viewportWidth } : viewportWidth' = width
  /\ calls' = << >>
  /\ UNCHANGED << samVars, pageVars, rndVars, extVars, validFiles, shuffledFiles,
                  activeElements, filePool, staggerFired, replTimers, inDocument,
                  cleanupCalled, cleanupAttached, budget, epoch >>

AmbientNext ==
  \/ StaggerTimer
  \/ ReplacementTimer
  \/ ImgOnload
  \/ ImgOnerror
  \/ AnimateRising
  \/ AnimateFalling
  \/ AnimateFadeOut
  \/ HoldTimer

\* an ambient layer left alone by the page
AmbientInit == Rendered(MaxCreated) /\ NoSamples /\ NoPage /\ NoRandn

SpecAmbient == AmbientInit /\ [][AmbientNext]_vars

\* the event loop runs every timer that is due and every animation frame
\* that was requested, each frame with a positive delta; whether and when an
\* image loads is up to the network
AmbientFairness ==
  /\ WF_vars(StaggerTimer)
  /\ WF_vars(ReplacementTimer)
  /\ WF_vars(HoldTimer)
  /\ WF_vars(AnimateRising)
  /\ WF_vars(AnimateFalling)
  /\ WF_vars(AnimateFadeOut)

LiveInit == Rendered(MaxLiveCreated) /\ NoSamples /\ NoPage /\ NoRandn

SpecAmbientLive == LiveInit /\ [][AmbientNext]_vars /\ AmbientFairness

\* an ambient layer whose cleanup() may be called at any moment
TeardownInit == Rendered(MaxTeardownCreated) /\ NoSamples /\ NoPage /\ NoRandn

TeardownNext == AmbientNext \/ AmbientCleanup

SpecTeardown == TeardownInit /\ [][TeardownNext]_vars

\* node.remove() of renderPage on a .dom-visual-layer node: the container
\* leaves the document with its children; cleanup() is not called
DomLayerRemoved ==
  /\ inDocument
  /\ inDocument' = FALSE
  /\ calls' = << >>
  /\ UNCHANGED << samVars, pageVars, rndVars, extVars, validFiles, shuffledFiles,
                  activeElements, filePool, staggerFired, replTimers,
                  cleanupCalled, cleanupAttached, viewportWidth, budget, epoch >>

\* an ambient layer whose container a re-render may remove at any moment
DetachInit == Rendered(MaxDetachCreated) /\ NoSamples /\ NoPage /\ NoRandn

DetachNext == AmbientNext \/ DomLayerRemoved

SpecDetach == DetachInit /\ [][DetachNext]_vars

\* an ambient layer in a window that may be resized at any moment
ResizeInit == Rendered(MaxResizeCreated) /\ NoSamples /\ NoPage /\ NoRandn

ResizeNext == AmbientNext \/ ViewportResize

SpecResize == ResizeInit /\ [][ResizeNext]_vars

\* ================================================================ SAMPLES
\* samplesLayerRenderer(files, container, rootStage)

\* Math.min(6, Math.max(3, Math.floor(validFiles.length / 2)))
maxImagesOf(n) == Min(6, Max(3, n \div 2))

maxImages == maxImagesOf(Len(samplesFiles))

\* the part of the layer a callback works on
Samples ==
  [ fileSequence |-> fileSequence, sequenceIndex |-> sequenceIndex,
    displayedFileIds |-> displayedFileIds, activeImages |-> activeImages,
    containerImages |-> containerImages, intervals |-> intervals,
    samplesInDocument |-> samplesInDocument, samplesError |-> samplesError,
    lastCall |-> NoCall, cursorAtEnd |-> cursorAtEnd ]

\* a set that reports nothing as displayed
hasNever(displayed, id) == FALSE

\* displayedFileIds.has(candidate.id)
has(displayed, id) == id \in displayed

\* a scan that never notices it is back where it started
neverAllChecked(index, startIndex) == FALSE

\* sequenceIndex === startIndex: every entry has been looked at
allChecked(index, startIndex) == index = startIndex

\* the do ... while (file === null) loop of getNextFile; steps counts its
\* iterations, and a scan still running after MaxLoop of them is reported as
\* diverged
RECURSIVE findNext(_, _, _)
findNext(S, startIndex, steps) ==
  LET candidate == S.fileSequence[S.sequenceIndex + 1]
      S1 == [ S EXCEPT !.sequenceIndex = (@ + 1) % Len(S.fileSequence),
                       !.cursorAtEnd = @ \/ S.sequenceIndex + 1 = Len(S.fileSequence),
                       !.lastCall.steps = steps + 1 ]
  IN IF ~has(S.displayedFileIds, candidate)
     THEN [ S1 EXCEPT !.displayedFileIds = @ \cup { candidate },
                      !.lastCall.file = candidate ]
     ELSE IF allChecked(S1.sequenceIndex, startIndex) THEN S1
     ELSE IF steps + 1 >= MaxLoop THEN [ S1 EXCEPT !.lastCall.diverged = TRUE ]
     ELSE findNext(S1, startIndex, steps + 1)

\* the outcomes of the shuffleArray call getNextFile may make
ReshuffleChoices(S) ==
  IF Len(S.fileSequence) # 0 /\ S.sequenceIndex >= Len(S.fileSequence)
  THEN shuffleArray(samplesFiles) ELSE { << >> }

\* getNextFile, sh being what its shuffleArray call returned; the file it
\* returns is lastCall.file
getNextFile(S, sh) ==
  LET S0 == [ S EXCEPT !.lastCall = [ NoCall EXCEPT !.called = TRUE,
                                         !.before = S.displayedFileIds ] ]
      S1 == IF S.sequenceIndex >= Len(S.fileSequence)
            THEN [ S0 EXCEPT !.fileSequence = sh, !.sequenceIndex = 0,
                             !.cursorAtEnd = FALSE, !.lastCall.reshuffled = TRUE ]
            ELSE S0
      S2 == IF Len(S.fileSequence) = 0 THEN S0
            ELSE findNext(S1, S1.sequenceIndex, 0)
  IN [ S2 EXCEPT !.lastCall.after = S2.displayedFileIds ]

\* the opacity and size addNextImage can draw: img.style.opacity is
\* 0.4 + Math.random() * 0.5 (in hundredths), img.style.width is
\* randn_bm(150, 9000, 6) px; the low and the high end of both
Styles == { [ opacity |-> 40, size |-> 150 ], [ opacity |-> 90, size |-> 9000 ] }

\* the image as addNextImage tracks it; isDragging lives in the img's
\* listeners, and moved tells that a drag has rewritten style.left / top
NewImage(file, style) ==
  [ file |-> file, isDragging |-> FALSE, moved |-> FALSE,
    opacity |-> style.opacity, size |-> style.size,
    cursor |-> "grab", zIndex |-> 100 ]

\* a catch block that only logs
catchErrorLogsOnly(S, file) == [ S EXCEPT !.lastCall.createThrew = TRUE ]

\* catch (err): if (file) displayedFileIds.delete(file.id)
catchError(S, file) ==
  [ S EXCEPT !.displayedFileIds = @ \ { file }, !.lastCall.createThrew = TRUE ]

\* addNextImage, sh being what shuffleArray returned, throws telling whether
\* a statement of the try block throws, and style the opacity and size
\* drawn.  Every statement that can throw (createElement, randn_bm,
\* file.filename.toLowerCase()) comes before samplesContainer.appendChild(img).
addNextImage(S, sh, throws, style) ==
  IF Len(S.activeImages) >= maxImages \/ Len(samplesFiles) = 0 THEN S
  ELSE LET G == getNextFile(S, sh)
       IN IF G.lastCall.file = NoFile THEN G
          ELSE IF throws THEN catchError(G, G.lastCall.file)
          ELSE [ G EXCEPT !.containerImages = @ \cup { G.lastCall.file },
                          !.activeImages = Append(@, NewImage(G.lastCall.file, style)) ]

\* imageInfo.element.parentNode
hasParent(S, imageInfo) == imageInfo.file \in S.containerImages

\* parent.removeChild(imageInfo.element): throws when the element is no child
removeChild(S, imageInfo) ==
  IF imageInfo.file \in S.containerImages
  THEN [ S EXCEPT !.containerImages = @ \ { imageInfo.file } ]
  ELSE [ S EXCEPT !.samplesError = TRUE ]

\* activeImages.forEach of cleanup: each tracked element that has a parent
\* is removed from it
RECURSIVE removeTracked(_, _)
removeTracked(S, images) ==
  IF images = << >> THEN S
  ELSE removeTracked(
         IF hasParent(S, Head(images)) THEN removeChild(S, Head(images)) ELSE S,
         Tail(images))

\* a removal that leaves the id of the image in displayedFileIds
removeRandomImageKeepsId(S, randomIndex) ==
  IF Len(S.activeImages) = 0 THEN S
  ELSE LET imageInfo == S.activeImages[randomIndex]
           S1 == IF hasParent(S, imageInfo) THEN removeChild(S, imageInfo) ELSE S
       IN [ S1 EXCEPT
              !.activeImages = RemoveAt(@, randomIndex),
              !.lastCall.removed = imageInfo.file ]

\* removeRandomImage, randomIndex being the index drawn
removeRandomImage(S, randomIndex) ==
  IF Len(S.activeImages) = 0 THEN S
  ELSE LET imageInfo == S.activeImages[randomIndex]
           S1 == IF hasParent(S, imageInfo) THEN removeChild(S, imageInfo) ELSE S
       IN [ S1 EXCEPT
              !.displayedFileIds = @ \ { imageInfo.file },
              !.activeImages = RemoveAt(@, randomIndex),
              !.lastCall.removed = imageInfo.file ]

\* a cleanup() that leaves the set of displayed ids alone
cleanupKeepsDisplayed(S) ==
  [ S EXCEPT !.intervals = "null", !.containerImages = {},
             !.activeImages = << >>, !.samplesInDocument = FALSE ]

\* cleanup(): clear both intervals, remove every tracked image that has a
\* parent, empty activeImages and displayedFileIds, detach the container.
\* The closing sweep of document.querySelectorAll('img[data-file-id]') finds
\* no image of this layer: its container is out of the document by then.
cleanup(S) ==
  LET S1 == [ S EXCEPT !.intervals = "null" ]
      S2 == [ removeTracked(S1, S1.activeImages) EXCEPT !.activeImages = << >> ]
      S3 == [ S2 EXCEPT !.displayedFileIds = {} ]
      S4 == [ S3 EXCEPT !.samplesInDocument = FALSE ]
  IN S4

CommitSamples(S) ==
  /\ fileSequence' = S.fileSequence
  /\ sequenceIndex' = S.sequenceIndex
  /\ displayedFileIds' = S.displayedFileIds
  /\ activeImages' = S.activeImages
  /\ containerImages' = S.containerImages
  /\ intervals' = S.intervals
  /\ samplesInDocument' = S.samplesInDocument
  /\ samplesError' = S.samplesError
  /\ lastCall' = S.lastCall
  /\ cursorAtEnd' = S.cursorAtEnd

\* the files a samples layer can be handed, by file.id ("file-0", ...)
SampleFileLists == { [i \in 1..n |-> i] : n \in 0..MaxSampleFiles }

\* the renderer has run: the container is attached, the sequence shuffled,
\* the first image added, both intervals set.  The files are named by their
\* rank in the first shuffle.
SamplesRendered ==
  /\ samplesFiles \in SampleFileLists
  /\ cleanups = 0
  /\ \E throws \in BOOLEAN, style \in Styles :
     LET Fresh == [ fileSequence |-> samplesFiles, sequenceIndex |-> 0,
                    displayedFileIds |-> {}, activeImages |-> << >>,
                    containerImages |-> {}, intervals |-> "set",
                    samplesInDocument |-> TRUE, samplesError |-> FALSE,
                    lastCall |-> NoCall, cursorAtEnd |-> FALSE ]
         S == addNextImage(Fresh, << >>, throws, style)
     IN /\ fileSequence = S.fileSequence
        /\ sequenceIndex = S.sequenceIndex
        /\ displayedFileIds = S.displayedFileIds
        /\ activeImages = S.activeImages
        /\ containerImages = S.containerImages
        /\ intervals = S.intervals
        /\ samplesInDocument = S.samplesInDocument
        /\ samplesError = S.samplesError
        /\ lastCall = S.lastCall
        /\ cursorAtEnd = S.cursorAtEnd

\* an add tick that adds whatever the count
AddTickUnbounded ==
  /\ intervals = "set"
  /\ \E sh \in ReshuffleChoices(Samples), style \in Styles :
       LET G == getNextFile(Samples, sh)
       IN /\ G.lastCall.file # NoFile
          /\ CommitSamples([ G EXCEPT
                !.activeImages = Append(@, NewImage(G.lastCall.file, style)),
                !.containerImages = @ \cup { G.lastCall.file } ])
  /\ UNCHANGED << ambVars, pageVars, rndVars, extVars, samplesFiles, cleanups >>

\* addInterval tick whose Math.random() < 0.6 test passes
AddTick ==
  /\ intervals = "set"
  /\ Len(activeImages) < maxImages
  /\ \E sh \in ReshuffleChoices(Samples), throws \in BOOLEAN, style \in Styles :
       CommitSamples(addNextImage(Samples, sh, throws, style))
  /\ UNCHANGED << ambVars, pageVars, rndVars, extVars, samplesFiles, cleanups >>

\* a remove tick that removes whatever the count
RemoveTickAlways ==
  /\ intervals = "set"
  /\ Len(activeImages) > 0
  /\ \E randomIndex \in 1..Len(activeImages) :
       CommitSamples(removeRandomImage(Samples, randomIndex))
  /\ UNCHANGED << ambVars, pageVars, rndVars, extVars, samplesFiles, cleanups >>

\* removeInterval tick whose Math.random() < 0.4 test passes
RemoveTick ==
  /\ intervals = "set"
  /\ Len(activeImages) > maxImages \div 2
  /\ \E randomIndex \in 1..Len(activeImages) :
       CommitSamples(removeRandomImage(Samples, randomIndex))
  /\ UNCHANGED << ambVars, pageVars, rndVars, extVars, samplesFiles, cleanups >>

\* mousedown on an image: only an img in the document receives it
MouseDown ==
  \E i \in 1..Len(activeImages) :
    /\ samplesInDocument
    /\ activeImages[i].file \in containerImages
    /\ ~activeImages[i].isDragging
    /\ activeImages' = [ activeImages EXCEPT ![i].isDragging = TRUE,
                                             ![i].cursor = "grabbing",
                                             ![i].zIndex = 101 ]
    /\ lastCall' = NoCall
    /\ UNCHANGED << ambVars, pageVars, rndVars, extVars,
                    samplesFiles, fileSequence, sequenceIndex,
                    displayedFileIds, containerImages, intervals,
                    samplesInDocument, samplesError, cleanups, cursorAtEnd >>

\* a mousemove that moves every image
MouseMoveEvery ==
  /\ \E i \in 1..Len(activeImages) :
       activeImages[i].isDragging /\ ~activeImages[i].moved
  /\ activeImages' = [ i \in 1..Len(activeImages) |->
       [ activeImages[i] EXCEPT !.moved = TRUE ] ]
  /\ lastCall' = NoCall
  /\ UNCHANGED << ambVars, pageVars, rndVars, extVars,
                  samplesFiles, fileSequence, sequenceIndex,
                  displayedFileIds, containerImages, intervals,
                  samplesInDocument, samplesError, cleanups, cursorAtEnd >>

\* mousemove on the document: every image being dragged follows the pointer
MouseMove ==
  /\ \E i \in 1..Len(activeImages) :
       activeImages[i].isDragging /\ ~activeImages[i].moved
  /\ activeImages' = [ i \in 1..Len(activeImages) |->
       IF activeImages[i].isDragging
       THEN [ activeImages[i] EXCEPT !.moved = TRUE ] ELSE activeImages[i] ]
  /\ lastCall' = NoCall
  /\ UNCHANGED << ambVars, pageVars, rndVars, extVars,
                  samplesFiles, fileSequence, sequenceIndex,
                  displayedFileIds, containerImages, intervals,
                  samplesInDocument, samplesError, cleanups, cursorAtEnd >>

\* mouseup on the document: every image being dragged is released
MouseUp ==
  /\ \E i \in 1..Len(activeImages) : activeImages[i].isDragging
  /\ activeImages' = [ i \in 1..Len(activeImages) |->
       IF activeImages[i].isDragging
       THEN [ activeImages[i] EXCEPT !.isDragging = FALSE, !.cursor = "grab",
                                     !.zIndex = 100 ]
       ELSE activeImages[i] ]
  /\ lastCall' = NoCall
  /\ UNCHANGED << ambVars, pageVars, rndVars, extVars,
                  samplesFiles, fileSequence, sequenceIndex,
                  displayedFileIds, containerImages, intervals,
                  samplesInDocument, samplesError, cleanups, cursorAtEnd >>

\* container.cleanup()
SamplesCleanup ==
  /\ cleanups < MaxCleanups
  /\ CommitSamples(cleanup(Samples))
  /\ cleanups' = cleanups + 1
  /\ UNCHANGED << ambVars, pageVars, rndVars, extVars, samplesFiles >>

\* no ambient layer on the page
NoAmbient ==
  /\ validFiles = << >>
  /\ shuffledFiles = << >>
  /\ activeElements = EmptyBag
  /\ filePool = << >>
  /\ staggerFired = 0
  /\ replTimers = EmptyBag
  /\ inDocument = FALSE
  /\ cleanupCalled = FALSE
  /\ cleanupAttached = FALSE
  /\ viewportWidth = 0
  /\ budget = 0
  /\ epoch = 0
  /\ calls = << >>

SamplesNext ==
  \/ AddTick
  \/ RemoveTick
  \/ MouseDown
  \/ MouseMove
  \/ MouseUp
  \/ SamplesCleanup

\* a samples layer left alone by the page
SamplesInit == SamplesRendered /\ NoAmbient /\ NoPage /\ NoRandn

\* an ambient layer (background or mist) and the samples layer on one page,
\* each with its timers running
LayersInit ==
  /\ Rendered(MaxLayerCreated)
  /\ Len(validFiles) <= MaxLayerFiles
  /\ SamplesRendered
  /\ Len(samplesFiles) <= MaxLayerFiles
  /\ NoPage
  /\ NoRandn

LayersNext == AmbientNext \/ AddTick \/ RemoveTick

SpecLayers == LayersInit /\ [][LayersNext]_vars

SpecSamples == SamplesInit /\ [][SamplesNext]_vars

\* =================================================================== PAGE
\* renderPage of index.js and the events that call it

\* the layers of a mix (getLayers), sorted by layerZIndices[name] || zIndex
LayerNames == << "gradient", "background", "samples", "mist", "splash" >>

\* the layers drawn by the DOM renderers of renderers/samples.js
isDomLayer(name) == name \in { "background", "samples", "mist" }

\* container.children.length once the renderer has returned: the gradient
\* and splash renderers add one sprite when files[0] has a texture, as every
\* file of getAssets has; the DOM renderers add nothing
childrenOf(name) == IF isDomLayer(name) THEN 0 ELSE 1

\* a test that lets every container through
hasChildrenAlways(container) == TRUE

\* container.children.length > 0
hasChildren(container) == container.children > 0

\* if (container.children.length > 0) backgroundContainer.addChild(container)
addChild(B, container) ==
  IF hasChildren(container) THEN B \cup { container } ELSE B

\* catch (err) around the layer loop: console.error, nothing rethrown; the
\* value tells whether the error leaves renderPage
catchLayerError(err) == FALSE

\* style.zIndex of the container a DOM renderer creates
layerZIndex(name) ==
  CASE name = "background" -> 30
    [] name = "mist" -> 20
    [] name = "samples" -> 25

\* z-index of the UI chrome set up by index.js: navigation container,
\* progress bar, play / pause button
chromeZIndices == { 2002, 1999, 2000 }

\* place of a layer in LayerNames
LayerRank(name) == CHOOSE i \in 1..Len(LayerNames) : LayerNames[i] = name

\* oldDomLayers.forEach(node => node.remove())
removeDomLayers(L) == { [ l EXCEPT !.inDocument = FALSE ] : l \in L }

\* containerEl.querySelectorAll('img[data-file-id]').length in the sweep of
\* samplesLayerRenderer: the lines before it have taken every
\* img[data-file-id] of the document off its parent
sampleImages(l) == 0

\* the start of samplesLayerRenderer: a '.dom-visual-layer' in the document
\* that is no background or mist container and holds sample images is
\* removed
removeOrphanedContainers(L) ==
  { IF l.name \notin { "background", "mist" } /\ sampleImages(l) > 0
    THEN [ l EXCEPT !.inDocument = FALSE ] ELSE l : l \in L }

\* layer.renderer(files, container, app): the layer's DOM container is
\* created and appended to document.body, container.cleanup is set
renderLayer(L, name, r) ==
  IF ~isDomLayer(name) THEN L
  ELSE
  ( IF name = "samples" THEN removeOrphanedContainers(L) ELSE L )
  \cup { [ name |-> name, render |-> r, inDocument |-> TRUE,
           cleanupCalled |-> FALSE, zIndex |-> layerZIndex(name) ] }

\* where a renderPage call stands: the await it is suspended at, and in the
\* layer loop the index of the layer whose assets it awaits
At(await, layer) == [ at |-> await, layer |-> layer ]

\* renderPage() up to its first await: the old DOM layers are removed, the
\* old backgroundContainer is taken off the stage and a new one made
renderPage ==
  /\ Len(renders) < MaxRenders
  /\ pageLayers' = removeDomLayers(pageLayers)
  /\ backgroundContainer' = {}
  /\ pageError' = pageError
  /\ renders' = Append(renders, At("splash", 0))

\* the hashchange listener
HashChange ==
  /\ renderPage
  /\ UNCHANGED << ambVars, samVars, rndVars, extVars, resizeTimeout >>

\* window.onresize: clearTimeout, setTimeout
WindowResize ==
  /\ ~resizeTimeout
  /\ Len(renders) < MaxRenders
  /\ resizeTimeout' = TRUE
  /\ UNCHANGED << ambVars, samVars, rndVars, extVars, renders, pageLayers, backgroundContainer,
                  pageError >>

\* the debounce timer fires
ResizeTimer ==
  /\ resizeTimeout
  /\ resizeTimeout' = FALSE
  /\ renderPage
  /\ UNCHANGED << ambVars, samVars, rndVars, extVars >>

\* await loadAsset(splashAssetUrl) returns, or throws into the catch
RenderSplash ==
  \E r \in 1..Len(renders) :
    /\ renders[r].at = "splash"
    /\ renders' = [ renders EXCEPT ![r] = At("getLayers", 0) ]
    /\ UNCHANGED << ambVars, samVars, rndVars, extVars, pageLayers, resizeTimeout,
                    backgroundContainer, pageError >>

\* await PageRenderer.getLayers() returns
RenderGetLayers ==
  \E r \in 1..Len(renders) :
    /\ renders[r].at = "getLayers"
    /\ renders' = [ renders EXCEPT ![r] = At("getAssets", 1) ]
    /\ UNCHANGED << ambVars, samVars, rndVars, extVars, pageLayers, resizeTimeout,
                    backgroundContainer, pageError >>

\* await getAssets(...) returns for the next layer of the loop.  Without
\* files the layer is skipped; with files the renderer runs and its
\* container is attached if it has children; an error thrown by the renderer
\* ends the loop in its catch.
RenderLayer ==
  \E r \in 1..Len(renders), outcome \in { "noFiles", "rendered", "throws" } :
    /\ renders[r].at = "getAssets"
    /\ LET name == LayerNames[renders[r].layer]
           container == [ name |-> name, render |-> r, children |-> childrenOf(name) ]
       IN /\ pageLayers' = IF outcome = "rendered"
                           THEN renderLayer(pageLayers, name, r) ELSE pageLayers
          /\ backgroundContainer' = IF outcome = "rendered"
                                    THEN addChild(backgroundContainer, container)
                                    ELSE backgroundContainer
    /\ pageError' = ( pageError \/ ( outcome = "throws" /\ catchLayerError(outcome) ) )
    /\ renders' = [ renders EXCEPT
                      ![r] = IF @.layer = Len(LayerNames) \/ outcome = "throws"
                             THEN At("done", 0)
                             ELSE At("getAssets", @.layer + 1) ]
    /\ UNCHANGED << ambVars, samVars, rndVars, extVars, resizeTimeout >>

\* the page has loaded: renderPage() has been called once
PageLoaded ==
  /\ renders = << At("splash", 0) >>
  /\ pageLayers = {}
  /\ resizeTimeout = FALSE
  /\ backgroundContainer = {}
  /\ pageError = FALSE

PageNext ==
  \/ HashChange
  \/ WindowResize
  \/ ResizeTimer
  \/ RenderSplash
  \/ RenderGetLayers
  \/ RenderLayer

\* the page, its layers seen from outside
PageInit == PageLoaded /\ NoAmbient /\ NoSamples /\ NoRandn

SpecPage == PageInit /\ [][PageNext]_vars

\* ================================================================ RANDN_BM
\* randn_bm(min, max, skew); numbers are kept in quarters (Unit is 1.0)

\* a product of two numbers kept in quarters
Times(a, b) == ( a * b ) \div Unit

\* Math.pow(num, skew) for a whole skew >= 1
RECURSIVE Pow(_, _)
Pow(num, skew) == IF skew = 1 THEN num ELSE Times(num, Pow(num, skew - 1))

\* randn_bm, draws being the values num = ... / 10.0 + 0.5 takes in this call
\* and in the calls it makes of itself
RECURSIVE randn_bm(_, _, _, _)
randn_bm(min, max, skew, draws) ==
  LET num0 == Head(draws)
      num1 == IF num0 > Unit \/ num0 < 0
              THEN randn_bm(min, max, skew, Tail(draws)) ELSE num0
      num2 == Pow(num1, skew)
      num3 == Times(num2, max - min)
  IN num3 + min

\* the values of num = sqrt(-2 ln u) cos(2 pi v) / 10 + 0.5: between 0 and
\* 1 (0, 0.5, 1), or outside (-0.25, 1.25)
InRange == { 0, Unit \div 2, Unit }

OutOfRange == { -1, Unit + 1 }

\* the deviates of one call: resamples, then a value in range
DrawLists ==
  { d \in UNION { [1..n -> InRange \cup OutOfRange] : n \in 1..MaxDraws } :
      /\ d[Len(d)] \in InRange
      /\ \A i \in 1..(Len(d) - 1) : d[i] \in OutOfRange }

\* whole bounds, min <= max
Bounds == { Unit * k : k \in (-MaxRange)..MaxRange }

\* a call of randn_bm
Sample ==
  /\ \E min \in Bounds, max \in Bounds, skew \in 1..MaxSkew, draws \in DrawLists :
       /\ min <= max
       /\ sample' = [ min |-> min, max |-> max, skew |-> skew, draws |-> draws,
                      value |-> randn_bm(min, max, skew, draws) ]
  /\ UNCHANGED << ambVars, samVars, pageVars, extVars >>

RandnInit == NoAmbient /\ NoSamples /\ NoPage /\ NoRandn

SpecRandn == RandnInit /\ [][Sample]_vars

\* no ambient layer, no samples layer, no page render, no number drawn
Elsewhere == NoAmbient /\ NoSamples /\ NoPage /\ sample = NoSample

\* ================================================================== LIMIT
\* the image limit of a samples renderer handed n valid files: the first
\* variant tests activeImages.length >= 10, the second computes maxImages

limitOf(variant, n) == IF variant = "first" THEN firstLimit ELSE maxImagesOf(n)

\* a samples renderer starts with n valid files
SamplesStarted ==
  /\ \E variant \in { "first", "second" }, n \in 0..MaxValid :
       limit' = [ variant |-> variant, n |-> n, max |-> limitOf(variant, n) ]
  /\ UNCHANGED << ambVars, samVars, pageVars, rndVars,
                  ticker, motion, sprite, splash, hash >>

LimitInit ==
  /\ Elsewhere
  /\ limit = NoLimit
  /\ ticker = NoTicker
  /\ motion = NoMotion
  /\ sprite = NoSprite
  /\ splash = NoSplash
  /\ hash = NoHash

SpecLimit == LimitInit /\ [][SamplesStarted]_vars

\* ================================================================= TICKER
\* paintSprite(assetDefinition, container, rootStage) and the callback it
\* adds to rootStage.ticker.  A sprite is a record: it has a parent, its
\* callback is on the ticker, and the calls of the callback and of
\* painter.updateSprite since it lost its parent are counted.

PaintedSprite(registered) ==
  [ parent |-> TRUE, registered |-> registered, updates |-> 0,
    callsOrphaned |-> 0, updatesOrphaned |-> 0 ]

\* a callback that updates the sprite whether or not it has a parent
updateCallbackAlways(s) ==
  [ s EXCEPT !.updates = @ + 1,
             !.callsOrphaned = IF s.parent THEN @ ELSE @ + 1,
             !.updatesOrphaned = IF s.parent THEN @ ELSE @ + 1 ]

\* updateCallback(delta) of one sprite
updateCallback(s) ==
  IF s.parent
  THEN [ s EXCEPT !.updates = @ + 1 ]
  ELSE [ s EXCEPT !.registered = FALSE, !.callsOrphaned = @ + 1 ]

\* paintSprite: with no texture it returns; when the painter's constructor
\* throws the sprite is added with no callback; else the sprite is added and
\* its callback goes on the ticker
PaintSprite ==
  /\ Len(ticker.sprites) < MaxSprites
  /\ \E outcome \in { "noTexture", "painterThrows", "painted" } :
       ticker' = [ ticker EXCEPT !.sprites =
         IF outcome = "noTexture" THEN @
         ELSE Append(@, PaintedSprite(outcome = "painted")) ]
  /\ UNCHANGED << ambVars, samVars, pageVars, rndVars,
                  limit, motion, sprite, splash, hash >>

\* one tick of rootStage.ticker: every callback on it is called
TickerTick ==
  /\ ticker.ticks < MaxTicks
  /\ \E i \in 1..Len(ticker.sprites) : ticker.sprites[i].registered
  /\ ticker' = [ sprites |-> [ i \in 1..Len(ticker.sprites) |->
                    IF ticker.sprites[i].registered
                    THEN updateCallback(ticker.sprites[i]) ELSE ticker.sprites[i] ],
                 ticks |-> ticker.ticks + 1 ]
  /\ UNCHANGED << ambVars, samVars, pageVars, rndVars,
                  limit, motion, sprite, splash, hash >>

\* the sprite is taken out of its container (removeChild, removeChildren,
\* destroy of the container)
SpriteOrphaned ==
  /\ \E i \in 1..Len(ticker.sprites) :
       /\ ticker.sprites[i].parent
       /\ ticker' = [ ticker EXCEPT !.sprites[i].parent = FALSE ]
  /\ UNCHANGED << ambVars, samVars, pageVars, rndVars,
                  limit, motion, sprite, splash, hash >>

TickerInit ==
  /\ Elsewhere
  /\ limit = NoLimit
  /\ ticker = NoTicker
  /\ motion = NoMotion
  /\ sprite = NoSprite
  /\ splash = NoSplash
  /\ hash = NoHash

TickerNext == PaintSprite \/ TickerTick \/ SpriteOrphaned

SpecTicker == TickerInit /\ [][TickerNext]_vars

\* ================================================================= MOTION
\* the movement of one ambient element in animate, in units of length in
\* which moveSpeedX and moveSpeedY are one unit per unit of delta

\* bounceThresholdY of animate for the background layer: imgHeight * 0.4
bounceThresholdY(e) == ( e.imgHeight * 4 ) \div 10

Abs(x) == IF x < 0 THEN 0 - x ELSE x

\* the direction after the boundary check of one axis: reversed when the
\* offset is beyond the threshold, else reversed on the random change
checkBoundary(pos, threshold, direction, randomDirectionChange) ==
  IF Abs(pos) > threshold \/ randomDirectionChange
  THEN ( IF Abs(pos) > threshold THEN 0 - direction
         ELSE IF randomDirectionChange THEN 0 - direction ELSE direction )
  ELSE direction

\* one frame of animate: delta is the time since the last frame, the random
\* changes of direction are drawn, the offsets move and the boundaries are
\* checked
AnimateMove ==
  /\ motion # NoMotion
  /\ motion.frames < MaxFrames
  /\ \E delta \in 1..MaxDelta, randomDirectionChangeX, randomDirectionChangeY \in BOOLEAN :
       LET posX == motion.posX + delta * motion.moveDirectionX
           posY == motion.posY + delta * motion.moveDirectionY
       IN motion' =
            [ motion EXCEPT
                !.posX = posX,
                !.posY = posY,
                !.moveDirectionX = checkBoundary(posX, bounceThresholdX(motion), @,
                                                 randomDirectionChangeX),
                !.moveDirectionY = checkBoundary(posY, bounceThresholdY(motion), @,
                                                 randomDirectionChangeY),
                !.frames = @ + 1 ]
  /\ UNCHANGED << ambVars, samVars, pageVars, rndVars, limit, ticker, sprite, splash,
                  hash >>

\* img.onload has sized the image and drawn the two directions; posX and
\* posY start at 0
MotionInit ==
  /\ Elsewhere
  /\ limit = NoLimit /\ ticker = NoTicker /\ sprite = NoSprite
  /\ splash = NoSplash /\ hash = NoHash
  /\ \E dx, dy \in { -1, 1 } :
       motion = [ imgWidth |-> 10, imgHeight |-> 5, posX |-> 0, posY |-> 0,
                  moveDirectionX |-> dx, moveDirectionY |-> dy, frames |-> 0 ]

SpecMotion == MotionInit /\ [][AnimateMove]_vars

\* ========================================================= MOVING SPRITE
\* MovingSpritePainter of painters/moving.js: one sprite, its position and
\* velocity, and the pointer events that drag it.  Lengths are in units in
\* which |xChange| and |yChange| are one unit per unit of delta.

\* event.global of a pointer event
Pointers == [ x : { 2, 8 }, y : { 2 } ]

\* the velocity after the boundary check of updateSprite on one axis: it is
\* reversed when the next position lies beyond surface - size / 2 or before
\* size / 2
bounceChange(pos, change, delta, surface, size) ==
  IF \/ 2 * ( pos + delta * change ) > 2 * surface - size
     \/ 2 * ( pos + delta * change ) < size
  THEN 0 - change ELSE change

\* updateSprite(delta) for a sprite that has a parent
updateSprite(p, delta) ==
  LET xChange == bounceChange(p.x, p.xChange, delta, p.surfaceWidth, p.width)
      yChange == bounceChange(p.y, p.yChange, delta, p.surfaceHeight, p.height)
  IN [ p EXCEPT !.xChange = xChange, !.yChange = yChange,
                !.x = @ + delta * xChange, !.y = @ + delta * yChange ]

\* the centre of the sprite is within the bounds updateSprite bounces at
InsideBounds ==
  /\ 2 * sprite.x >= sprite.width
  /\ 2 * sprite.x <= 2 * sprite.surfaceWidth - sprite.width
  /\ 2 * sprite.y >= sprite.height
  /\ 2 * sprite.y <= 2 * sprite.surfaceHeight - sprite.height

\* the ticker calls painter.updateSprite(delta)
UpdateSprite ==
  /\ sprite # NoSprite
  /\ \E delta \in 1..MaxDelta :
       /\ sprite' = updateSprite(sprite, delta)
       /\ sprite'.x \in ( 0 - PosCap )..( sprite.surfaceWidth + PosCap )
       /\ sprite'.y \in ( 0 - PosCap )..( sprite.surfaceHeight + PosCap )
  /\ UNCHANGED << ambVars, samVars, pageVars, rndVars, limit, ticker, motion, splash,
                  hash >>

\* pointerdown on the sprite
OnDragStart ==
  /\ sprite # NoSprite
  /\ sprite.drags < MaxDrags
  /\ \E global \in Pointers :
       sprite' = [ sprite EXCEPT !.dragging = TRUE, !.dragPoint = global,
                                 !.dragStartPosition = [ x |-> sprite.x, y |-> sprite.y ],
                                 !.drags = @ + 1 ]
  /\ UNCHANGED << ambVars, samVars, pageVars, rndVars, limit, ticker, motion, splash,
                  hash >>

\* pointerup, pointerupoutside
OnDragEnd ==
  /\ sprite # NoSprite
  /\ sprite' = [ sprite EXCEPT !.dragging = FALSE ]
  /\ UNCHANGED << ambVars, samVars, pageVars, rndVars, limit, ticker, motion, splash,
                  hash >>

\* pointermove
OnDragMove ==
  /\ sprite # NoSprite
  /\ \E newPosition \in Pointers :
       sprite' = IF sprite.dragging
                 THEN [ sprite EXCEPT
                          !.x = sprite.dragStartPosition.x
                                + ( newPosition.x - sprite.dragPoint.x ),
                          !.y = sprite.dragStartPosition.y
                                + ( newPosition.y - sprite.dragPoint.y ) ]
                 ELSE sprite
  /\ UNCHANGED << ambVars, samVars, pageVars, rndVars, limit, ticker, motion, splash,
                  hash >>

\* the constructor: the surface is the window, the sprite is sized, placed
\* at least padding (1) from the edges and given a velocity
SpriteInit ==
  /\ Elsewhere
  /\ limit = NoLimit /\ ticker = NoTicker /\ motion = NoMotion
  /\ splash = NoSplash /\ hash = NoHash
  /\ \E x \in 1..9, y \in 1..3, xChange, yChange \in { -1, 1 } :
       sprite = [ NoSprite EXCEPT !.surfaceWidth = 10, !.surfaceHeight = 4,
                                  !.width = 6, !.height = 2, !.x = x, !.y = y,
                                  !.xChange = xChange, !.yChange = yChange ]

SpriteNext ==
  \/ UpdateSprite
  \/ OnDragStart
  \/ OnDragEnd
  \/ OnDragMove

SpecSprite == SpriteInit /\ [][SpriteNext]_vars

\* the ticker goes on calling updateSprite
SpriteFairness == WF_vars(UpdateSprite)

SpecSpriteLive == SpriteInit /\ [][SpriteNext]_vars /\ SpriteFairness

\* ================================================================ SPLASH
\* SplashPainter: the panel's position, target and state, its auto-close
\* timer and the width of its sprite.  A record of the painter keeps, beside
\* the fields of the class, the timers pending in the browser (timers), the
\* last of openPanel / closePanel called (last), the pending timers that
\* were scheduled before a call of openPanel, closePanel or cancelAutoClose
\* (stale) and whether one of those has closed the panel (staleClosed).

\* sprite.width once a texture is there
SpriteWidths == { 2, 4 }

\* _getClosedXPosition()
getClosedXPosition(p) == 0 - ( IF p.width > 0 THEN p.width ELSE DEFAULT_PANEL_WIDTH )

\* a cancelAutoClose that leaves the browser's timer alone
cancelAutoCloseFlagOnly(p) ==
  [ p EXCEPT !.autoCloseTimeoutId = 0, !.autoCloseScheduled = FALSE ]

\* cancelAutoClose(): clearTimeout on the id kept, the id and the flag reset
cancelAutoClose(p) ==
  [ p EXCEPT !.timers = IF p.autoCloseTimeoutId # 0
                        THEN @ \ { p.autoCloseTimeoutId } ELSE @,
             !.autoCloseTimeoutId = 0,
             !.autoCloseScheduled = FALSE ]

\* openPanel()
openPanel(p) ==
  IF p.state = "OPEN" /\ p.x = OPEN_X THEN p
  ELSE cancelAutoClose([ p EXCEPT !.targetX = OPEN_X, !.state = "OPENING" ])

\* closePanel()
closePanel(p) ==
  LET currentClosedX == getClosedXPosition(p)
  IN IF p.state = "CLOSED" /\ p.x = currentClosedX THEN p
     ELSE cancelAutoClose([ p EXCEPT !.targetX = currentClosedX, !.state = "CLOSING" ])

\* scheduleAutoClose(delay): the timer set is the next one of the browser
scheduleAutoClose(p) ==
  LET q == cancelAutoClose(p)
      id == p.nextId + 1
  IN [ q EXCEPT !.autoCloseScheduled = TRUE, !.autoCloseTimeoutId = id,
                !.timers = @ \cup { id }, !.nextId = id ]

\* the callback of setTimeout in scheduleAutoClose
autoCloseCallback(p) == IF p.autoCloseScheduled THEN closePanel(p) ELSE p

\* the movement of update(ticker): toward targetX by moveDistance, not
\* beyond it
moveX(p, moveDistance) ==
  IF p.x < p.targetX THEN Min(p.x + moveDistance, p.targetX)
  ELSE Max(p.x - moveDistance, p.targetX)

\* the state update(ticker) sets after a movement
stateMoved(p, currentClosedX) ==
  IF p.x = OPEN_X THEN "OPEN"
  ELSE IF p.x = currentClosedX /\ p.targetX = currentClosedX THEN "CLOSED"
  ELSE IF p.targetX = OPEN_X /\ p.state \notin { "OPENING", "OPEN" } THEN "OPENING"
  ELSE IF p.targetX = currentClosedX /\ p.state \notin { "CLOSING", "CLOSED" }
       THEN "CLOSING"
  ELSE p.state

\* the state update(ticker) sets when the container is at targetX
stateAtTarget(p, currentClosedX) ==
  IF p.targetX = OPEN_X /\ p.state # "OPEN" THEN "OPEN"
  ELSE IF p.targetX = currentClosedX /\ p.state # "CLOSED" THEN "CLOSED"
  ELSE p.state

\* update(ticker) with moveDistance = animationSpeed * elapsed seconds; no
\* elapsed time (moveDistance 0) returns at once
update(p, moveDistance) ==
  LET currentClosedX == getClosedXPosition(p)
  IN IF moveDistance <= 0 THEN p
     ELSE IF p.x # p.targetX
     THEN LET q == [ p EXCEPT !.x = moveX(p, moveDistance) ]
          IN [ q EXCEPT !.state = stateMoved(q, currentClosedX) ]
     ELSE [ p EXCEPT !.state = stateAtTarget(p, currentClosedX) ]

\* the listener of the texture's 'update' event set by the constructor
textureListener(p) ==
  IF p.state \in { "CLOSED", "CLOSING" } /\ p.targetX # OPEN_X
  THEN LET newClosedX == getClosedXPosition(p)
       IN IF p.targetX # newClosedX
          THEN [ p EXCEPT !.targetX = newClosedX,
                          !.state = IF p.state = "CLOSED" /\ p.x # newClosedX
                                    THEN "CLOSING" ELSE @ ]
          ELSE p
  ELSE p

\* the timers pending after a call of openPanel, closePanel or
\* cancelAutoClose were all scheduled before it
markStale(p) == [ p EXCEPT !.stale = p.timers ]

OpenPanel ==
  /\ splash # NoSplash
  /\ splash' = markStale([ openPanel(splash) EXCEPT !.last = "openPanel" ])
  /\ UNCHANGED << ambVars, samVars, pageVars, rndVars, limit, ticker, motion, sprite,
                  hash >>

ClosePanel ==
  /\ splash # NoSplash
  /\ splash' = markStale([ closePanel(splash) EXCEPT !.last = "closePanel" ])
  /\ UNCHANGED << ambVars, samVars, pageVars, rndVars, limit, ticker, motion, sprite,
                  hash >>

ScheduleAutoClose ==
  /\ splash # NoSplash
  /\ splash.nextId < MaxTimers
  /\ splash' = scheduleAutoClose(splash)
  /\ UNCHANGED << ambVars, samVars, pageVars, rndVars, limit, ticker, motion, sprite,
                  hash >>

CancelAutoClose ==
  /\ splash # NoSplash
  /\ splash' = markStale(cancelAutoClose(splash))
  /\ UNCHANGED << ambVars, samVars, pageVars, rndVars, limit, ticker, motion, sprite,
                  hash >>

\* a pending timer fires: its callback runs, and a closePanel it calls counts
\* as the last call
AutoCloseTimer ==
  /\ \E id \in splash.timers :
       LET p == [ splash EXCEPT !.timers = @ \ { id } ]
           q == autoCloseCallback(p)
           closes == q.state # p.state \/ q.targetX # p.targetX
       IN splash' = [ q EXCEPT !.last = IF p.autoCloseScheduled THEN "closePanel" ELSE @,
                               !.stale = @ \cap q.timers,
                               !.staleClosed = @ \/ ( id \in p.stale /\ closes ) ]
  /\ UNCHANGED << ambVars, samVars, pageVars, rndVars, limit, ticker, motion, sprite,
                  hash >>

\* the ticker calls painter.update(ticker)
Update ==
  /\ splash # NoSplash
  /\ \E moveDistance \in 0..MaxMove : splash' = update(splash, moveDistance)
  /\ UNCHANGED << ambVars, samVars, pageVars, rndVars, limit, ticker, motion, sprite,
                  hash >>

\* the texture of the sprite is updated: the sprite has a new width, and the
\* listener, set with once(), runs if it is still there
TextureUpdate ==
  /\ splash # NoSplash
  /\ splash.updates < MaxTextureUpdates
  /\ \E width \in SpriteWidths :
       LET p == [ splash EXCEPT !.width = width, !.updates = @ + 1 ]
       IN splash' = IF p.listener THEN [ textureListener(p) EXCEPT !.listener = FALSE ]
                    ELSE p
  /\ UNCHANGED << ambVars, samVars, pageVars, rndVars, limit, ticker, motion, sprite,
                  hash >>

\* the constructor: the panel is closed at the closed position of the
\* sprite's width, which is 0 while the texture is not valid
SplashInit ==
  /\ Elsewhere
  /\ limit = NoLimit /\ ticker = NoTicker /\ motion = NoMotion
  /\ sprite = NoSprite /\ hash = NoHash
  /\ \E width \in SpriteWidths \cup { 0 } :
       LET p == [ NoSplash EXCEPT !.width = width, !.listener = ( width = 0 ) ]
       IN splash = [ p EXCEPT !.x = getClosedXPosition(p),
                              !.targetX = getClosedXPosition(p),
                              !.state = "CLOSED" ]

SplashNext ==
  \/ OpenPanel
  \/ ClosePanel
  \/ ScheduleAutoClose
  \/ CancelAutoClose
  \/ AutoCloseTimer
  \/ Update
  \/ TextureUpdate

SpecSplash == SplashInit /\ [][SplashNext]_vars

\* the ticker goes on calling update with elapsed time
SplashFairness == WF_vars(Update)

SpecSplashLive == SplashInit /\ [][SplashNext]_vars /\ SplashFairness

\* isFullyOpen()
isFullyOpen == splash.state = "OPEN" /\ splash.x = OPEN_X

\* isFullyClosed()
isFullyClosed == splash.state = "CLOSED" /\ splash.x = getClosedXPosition(splash)

\* ============================================================ CHANGE MIX
\* changeMix of index.js.  A string is the sequence of its characters.

DigitChars == << "0", "1", "2", "3", "4", "5", "6", "7", "8", "9" >>

\* the value of a digit character
digitValue(c) == ( CHOOSE i \in 1..10 : DigitChars[i] = c ) - 1

RECURSIVE toString(_)
\* String(n) of a number
toString(n) ==
  IF n < 0 THEN << "-" >> \o toString(0 - n)
  ELSE IF n < 10 THEN << DigitChars[n + 1] >>
  ELSE toString(n \div 10) \o << DigitChars[( n % 10 ) + 1] >>

\* str.slice(-count): the last count characters, all of str if it is shorter
sliceLast(str, count) == SubSeq(str, Max(1, Len(str) - count + 1), Len(str))

\* str.replace(pattern, ''): the first occurrence of pattern is taken out
replaceFirst(str, pattern) ==
  LET found == { i \in 1..( Len(str) - Len(pattern) + 1 ) :
                   SubSeq(str, i, i + Len(pattern) - 1) = pattern }
  IN IF found = {} THEN str
     ELSE LET i == CHOOSE k \in found : \A j \in found : k <= j
          IN SubSeq(str, 1, i - 1) \o SubSeq(str, i + Len(pattern), Len(str))

\* whether Number(str) is a number: digits only, or nothing
isNumber(str) == \A i \in 1..Len(str) : \E d \in 1..10 : DigitChars[d] = str[i]

RECURSIVE Number(_)
\* Number(str) of a string of digits; Number('') is 0
Number(str) ==
  IF str = << >> THEN 0
  ELSE 10 * Number(SubSeq(str, 1, Len(str) - 1)) + digitValue(str[Len(str)])

\* a test without the upper limit
inRangeNoUpper(mixNum, difference) ==
  \/ difference < 0 /\ mixNum + difference > 0
  \/ difference > 0

\* (difference < 0 && mixNum + difference > 0) ||
\* (difference > 0 && mixNum + difference <= MIX_COUNT)
inRange(mixNum, difference) ==
  \/ difference < 0 /\ mixNum + difference > 0
  \/ difference > 0 /\ mixNum + difference <= MIX_COUNT

\* `0000${mixNum + difference}`.slice(-2)
paddedMixNum(n) == sliceLast(<< "0", "0", "0", "0" >> \o toString(n), 2)

\* the second half of changeMix: the hash is read, the number taken from it
\* and the new hash written if the step stays in range
stepHash(location, difference) ==
  IF location = << >> THEN location
  ELSE LET str == replaceFirst(location, << "#", "m", "i", "x" >>)
       IN IF isNumber(str) /\ inRange(Number(str), difference)
          THEN << "#", "m", "i", "x" >> \o paddedMixNum(Number(str) + difference)
          ELSE location

\* changeMix after its await
changeMixRest(h, difference) ==
  [ h EXCEPT !.location = stepHash(h.location, difference),
             !.last = [ difference |-> difference, before |-> h.location ] ]

\* changeMix(difference), by a button or an arrow key: with a player it
\* waits for scPlayer.pause(), without one it goes on at once
ChangeMix ==
  /\ hash # NoHash
  /\ \E difference \in { -1, 1 } :
       IF hash.scPlayer
       THEN /\ Len(hash.pending) < MaxPending
            /\ hash' = [ hash EXCEPT !.pending = Append(@, difference) ]
       ELSE hash' = changeMixRest(hash, difference)
  /\ UNCHANGED << ambVars, samVars, pageVars, rndVars, limit, ticker, motion, sprite,
                  splash >>

\* scPlayer.pause() has resolved for the oldest waiting call: the player is
\* dropped and the call goes on
ChangeMixResumed ==
  /\ hash.pending # << >>
  /\ hash' = changeMixRest([ hash EXCEPT !.pending = Tail(@), !.scPlayer = FALSE,
                                         !.isPlaying = FALSE ],
                           Head(hash.pending))
  /\ UNCHANGED << ambVars, samVars, pageVars, rndVars, limit, ticker, motion, sprite,
                  splash >>

\* the play / pause button: the player is made and started, or toggled
TogglePlay ==
  /\ hash # NoHash
  /\ hash' = [ hash EXCEPT !.scPlayer = TRUE, !.isPlaying = ~@ ]
  /\ UNCHANGED << ambVars, samVars, pageVars, rndVars, limit, ticker, motion, sprite,
                  splash >>

\* the hash '#mixNN' of mix n, n from 1 to 99
mixHash(n) ==
  << "#", "m", "i", "x", DigitChars[( n \div 10 ) + 1], DigitChars[( n % 10 ) + 1] >>

\* the page shows one of the mixes, no player made yet
HashInit ==
  /\ Elsewhere
  /\ limit = NoLimit /\ ticker = NoTicker /\ motion = NoMotion
  /\ sprite = NoSprite /\ splash = NoSplash
  /\ \E n \in 1..MIX_COUNT : hash = [ NoHash EXCEPT !.location = mixHash(n) ]

HashNext ==
  \/ ChangeMix
  \/ ChangeMixResumed
  \/ TogglePlay

SpecHash == HashInit /\ [][HashNext]_vars

\* the layers, by name and render
LayerKeys(L) == { << l.name, l.render >> : l \in L }

Attached == BagCardinality(activeElements)

RECURSIVE TimersIn(_, _)
TimersIn(S, B) ==
  IF S = {} THEN 0
  ELSE LET b == CHOOSE x \in S : TRUE
       IN CopiesIn(b, B) * Len(b.files) + TimersIn(S \ { b }, B)

\* creations already scheduled: unfired stagger timers and replacement timers
PendingCreations ==
  (Min(maxElements, Len(shuffledFiles)) - staggerFired)
  + TimersIn(BagToSet(replTimers), replTimers)

ActiveFiles == { e.file : e \in BagToSet(activeElements) }

\* elements attached that show file f, and pending replacement timers for it
RECURSIVE CountIn(_, _)
CountIn(s, f) ==
  IF s = << >> THEN 0
  ELSE (IF Head(s) = f THEN 1 ELSE 0) + CountIn(Tail(s), f)

RECURSIVE SumOver(_, _, _)
SumOver(S, B, f) ==
  IF S = {} THEN 0
  ELSE LET x == CHOOSE y \in S : TRUE
       IN CopiesIn(x, B) * (IF "files" \in DOMAIN x THEN CountIn(x.files, f)
                            ELSE IF x.file = f THEN 1 ELSE 0)
          + SumOver(S \ { x }, B, f)

ShownOrScheduled(f) ==
  SumOver(BagToSet(activeElements), activeElements, f)
  + SumOver(BagToSet(replTimers), replTimers, f)

FadeOutCalls == << "addReplacementElement", "removeChild" >>

\* the fade phase of an element: rising 0, holding 1, falling 2
PhaseRank(e) == IF e.rising THEN 0 ELSE IF e.rate = "slow" THEN 1 ELSE 2

\* the callback of this step has taken (a copy of) e out of activeElements,
\* or has put (a copy of) e into it
Lost(e) == CopiesIn(e, activeElements') < CopiesIn(e, activeElements)

Gained(e) == CopiesIn(e, activeElements') > CopiesIn(e, activeElements)

\* an element made from file f is attached and its image has loaded
LoadedOn(f) ==
  \E e \in BagToSet(activeElements) : e.file = f /\ e.load = "loaded"

\* the run has created all the elements it may create and replacement timers
\* are left over: these timers, and the hold timers set after them, stay pending
Capped == budget = 0 /\ replTimers # EmptyBag

\* elements created so far
Created == MaxCreated - budget

\* ------------------------------------------------------------------ C1
\* C1: in a layer with at least 3 valid files and 3 attached elements, the
\* step in which an element completes its fade-out leaves the layer with 3
\* elements attached or scheduled: the count returns to 3.
C1_FadeOutRestoresThree ==
  [][ ( /\ Len(validFiles) >= maxElements
        /\ Attached = maxElements
        /\ Attached' < Attached )
      => Attached' + PendingCreations' >= maxElements ]_vars

\* ------------------------------------------------------------------ C2
\* C2: whatever the interleaving of stagger timers, replacement timers, image
\* loads and fade completions, at most maxElements elements are attached.
C2_AttachedAtMostMax == Attached <= maxElements

\* the layer is full again after fade-outs: replacements are among the three
C2_Witness ==
  /\ Attached = maxElements
  /\ staggerFired = maxElements
  /\ budget <= MaxCreated - 2 * maxElements

\* ------------------------------------------------------------------ C3
\* C3: after any sequence of add ticks, remove ticks and drag events the
\* samples layer tracks at most maxImages active images.
C3_ActiveAtMostMaxImages == Len(activeImages) <= maxImages

\* the layer is full with more files than places, and an image is being dragged
C3_Witness ==
  /\ Len(activeImages) = maxImages
  /\ Len(samplesFiles) > maxImages
  /\ \E i \in 1..Len(activeImages) : activeImages[i].isDragging /\ activeImages[i].moved

\* ------------------------------------------------------------------ C4
\* C4: in the callback that completes a fade-out, the removeChild call comes
\* after an addReplacementElement call.
C4_ReplacementBeforeRemoval ==
  \A i \in 1..Len(calls) :
    calls[i] = "removeChild" =>
      \E j \in 1..(i - 1) : calls[j] = "addReplacementElement"

C4_Witness == \E i \in 1..Len(calls) : calls[i] = "removeChild"

\* ------------------------------------------------------------------ C5
\* C5: a getNextFile call made while some valid file is not displayed returns
\* a file whose id was not displayed before the call, and adds that id to
\* displayedFileIds.
C5_NextFileIsUndisplayed ==
  ( lastCall.called /\ Range(samplesFiles) \ lastCall.before # {} )
    => /\ lastCall.file \in Range(samplesFiles) \ lastCall.before
       /\ lastCall.after = lastCall.before \cup { lastCall.file }

\* the call passed over a displayed file before it returned one
C5_Witness ==
  /\ lastCall.called
  /\ lastCall.file # NoFile
  /\ lastCall.steps >= 2
  /\ lastCall.before # {}

\* ------------------------------------------------------------------ C6
\* C6: when a render creates a layer container, every layer of an earlier
\* render has had its cleanup() called and its container detached.
C6_CleanupBeforeNewLayers ==
  [][ \A new \in pageLayers' :
        << new.name, new.render >> \notin LayerKeys(pageLayers) =>
          \A old \in pageLayers :
            old.render < new.render => old.cleanupCalled /\ ~old.inDocument ]_vars

\* ------------------------------------------------------------------ C7
\* C7: once cleanup() has run, no stagger timer, replacement timer, hold
\* timer or animation frame of the layer runs, and no element is created.
C7_NothingRunsAfterCleanup ==
  [][ cleanupCalled =>
        /\ budget' = budget
        /\ ~ ( StaggerTimer \/ ReplacementTimer \/ HoldTimer
               \/ AnimateRising \/ AnimateFalling \/ AnimateFadeOut ) ]_vars

C9_NextFileTerminates ==
  lastCall.called =>
    /\ ~lastCall.diverged
    /\ lastCall.steps <= Len(fileSequence)
    /\ Range(samplesFiles) \subseteq lastCall.before =>
         /\ lastCall.file = NoFile
         /\ lastCall.after = lastCall.before

\* every file was displayed, and the call went once round two files or more
C9_Witness ==
  /\ lastCall.called
  /\ Range(samplesFiles) \subseteq lastCall.before
  /\ lastCall.steps = Len(fileSequence)
  /\ Len(fileSequence) >= 2

C11_NoFileTwice ==
  Len(validFiles) > maxElements =>
    \A f \in Range(validFiles) : ShownOrScheduled(f) <= 1

\* ------------------------------------------------------------------ C12
\* C12: once the cursor has gone past the last entry of fileSequence, the
\* next getNextFile call reshuffles the valid files and restarts at 0.
C12_ReshuffleAtEnd ==
  [][ ( cursorAtEnd /\ lastCall'.called ) => lastCall'.reshuffled ]_vars

\* ------------------------------------------------------------------ C13
\* C13: when the creation of a sample element throws after getNextFile has
\* reserved the file, the id is taken out of displayedFileIds again, the
\* active images and the container are as before, and nothing is thrown out
\* of addNextImage.
C13_ThrowReleasesFile ==
  [][ lastCall'.createThrew =>
        /\ lastCall'.file \in lastCall'.after
        /\ lastCall'.file \notin displayedFileIds'
        /\ displayedFileIds' = lastCall'.before
        /\ activeImages' = activeImages
        /\ containerImages' = containerImages
        /\ ~samplesError' ]_vars

\* a creation has thrown in a layer that shows images
C13_Witness ==
  /\ lastCall.createThrew
  /\ lastCall.file # NoFile
  /\ Len(activeImages) >= 2

\* ------------------------------------------------------------------ C14
\* C14: a remove-interval tick never removes an image that is being dragged
\* (mousedown received, no mouseup yet).
C14_DraggedIsNotRemoved ==
  [][ RemoveTick =>
        \A i \in 1..Len(activeImages) :
          activeImages[i].isDragging =>
            \E j \in 1..Len(activeImages') :
              activeImages'[j].file = activeImages[i].file ]_vars

\* ------------------------------------------------------------------ C15
\* C15: of the layers in the document, the background container is stacked
\* below the samples container, the samples container below the mist
\* container, and each of them below every element of the UI chrome.
C15_StackingOrder ==
  \A a \in pageLayers, b \in pageLayers :
    ( a.inDocument /\ b.inDocument ) =>
      /\ LayerRank(a.name) < LayerRank(b.name) => a.zIndex < b.zIndex
      /\ \A z \in chromeZIndices : a.zIndex < z

\* ------------------------------------------------------------------ C16
\* C16: every DOM layer container in the document has a z-index greater
\* than the z-index of the canvas element.
C16_DomLayersAboveCanvas ==
  \A l \in pageLayers : l.inDocument => l.zIndex > canvasZIndex

\* ------------------------------------------------------------------ C17
\* C17: every layer container attached to backgroundContainer has at least
\* one child, a container its renderer left empty is not attached, and no
\* error has come out of renderPage.
C17_AttachedHaveChildren ==
  /\ \A container \in backgroundContainer : container.children >= 1
  /\ ~pageError

\* a render has finished with its gradient container attached and the
\* empty container of its background layer left out
C17_Witness ==
  \E r \in 1..Len(renders) :
    /\ renders[r].at = "done"
    /\ \E container \in backgroundContainer :
         container.render = r /\ container.name = "gradient"
    /\ \E l \in pageLayers : l.render = r /\ l.name = "background"
    /\ \A container \in backgroundContainer : container.name # "background"

\* ------------------------------------------------------------------ C18
\* C18: a layer container that a renderer has put into the document comes
\* with a cleanup function that detaches it, also when the file list holds
\* no valid file.
C18_CleanupAlwaysAttached ==
  /\ ( inDocument /\ ~cleanupCalled ) => cleanupAttached
  /\ cleanupCalled => ~inDocument

\* ------------------------------------------------------------------ C19
\* C19: for min <= max and skew >= 1 the value of randn_bm lies between min
\* and max, with and without a resample.
C19_RandnWithinBounds ==
  sample.draws # << >> => ( sample.min <= sample.value /\ sample.value <= sample.max )

\* ------------------------------------------------------------------ C20
\* C20: the bounce threshold the next frame of an animating element uses is
\* the one computed from the present viewport width.
C20_ThresholdFollowsViewport ==
  \A e \in BagToSet(activeElements) :
    e.raf => bounceThresholdX(e)
               = bounceThresholdX([ imgWidth |-> scaledWidth(viewportWidth) ])

\* ------------------------------------------------------------------ C21
\* C21: the fade phase of an ambient element only moves forward (rising,
\* holding, falling, removed), and an element that has left the rising phase
\* never has its opacity increased again.
C21_PhaseOnlyForward ==
  [][ \A old \in BagToSet(activeElements), new \in BagToSet(activeElements') :
        ( Lost(old) /\ Gained(new) )
          => /\ new.file = old.file
             /\ PhaseRank(old) <= PhaseRank(new)
             /\ ~old.rising => new.op <= old.op ]_vars

C21_Witness ==
  \E e \in BagToSet(activeElements) : PhaseRank(e) = 2 /\ e.op < OpMax /\ e.hold = 0

\* ------------------------------------------------------------------ C22
\* C22: without a teardown, an ambient element leaves activeElements only in
\* a frame of its own in which it is past the rising phase and the decrement
\* of that frame takes its opacity to 0.
C22_RemovedOnlyAtZero ==
  [][ \A e \in BagToSet(activeElements) :
        ( Lost(e) /\ BagCardinality(activeElements') < BagCardinality(activeElements) )
          => /\ ~e.rising
             /\ e.raf
             /\ \E step \in StepsFor(e.rate) : e.op - step <= 0
             /\ calls'[Len(calls')] = "removeChild" ]_vars

C22_Witness ==
  /\ Len(calls) = 2
  /\ calls[2] = "removeChild"
  /\ BagCardinality(activeElements) < staggerFired

\* ------------------------------------------------------------------ C23
\* C23: with every due timer and every requested frame eventually run, an
\* ambient element whose image has loaded is eventually removed from its
\* layer (in a run cut short by the creation bound: unless timers are left
\* pending by the bound).
C23_LoadedEventuallyRemoved ==
  \A f \in 1..MaxFiles : LoadedOn(f) ~> ( ~LoadedOn(f) \/ Capped )

C23_Witness ==
  /\ Len(calls) = 2
  /\ calls[2] = "removeChild"
  /\ \A e \in BagToSet(activeElements) : e.load # "loaded"
  /\ ~Capped

\* ------------------------------------------------------------------ C24
\* C24: from its creation until its image has loaded an ambient element is
\* attached with opacity 0, has no frame requested and keeps the state it
\* was created with, while the frames of the loaded elements stay enabled.
C24_NothingRunsBeforeLoad ==
  /\ \A e \in BagToSet(activeElements) :
       e.load # "loaded" => [ e EXCEPT !.load = "pending" ] = NewElement(e.file)
  /\ ( \E e \in BagToSet(activeElements) : e.load = "loaded" /\ e.raf )
       => ENABLED ( AnimateRising \/ AnimateFalling \/ AnimateFadeOut )

C24_Witness ==
  /\ \E e \in BagToSet(activeElements) : e.load = "pending"
  /\ \E e \in BagToSet(activeElements) : e.load = "loaded" /\ ~e.rising

\* ------------------------------------------------------------------ C25
\* C25: once the layer's container is out of the document, a frame of one of
\* its elements does no more than drop its own pending request: it changes
\* no element otherwise, removes none and touches neither pool nor timers.
C25_DetachedFramesStop ==
  [][ ( ~inDocument /\ ( AnimateRising \/ AnimateFalling \/ AnimateFadeOut ) )
        => /\ filePool' = filePool
           /\ replTimers' = replTimers
           /\ BagCardinality(activeElements') = BagCardinality(activeElements)
           /\ \A old \in BagToSet(activeElements), new \in BagToSet(activeElements') :
                ( Lost(old) /\ Gained(new) ) => new = [ old EXCEPT !.raf = FALSE ] ]_vars

\* ------------------------------------------------------------------ C26
\* C26: an ambient element whose image failed to load does not stay attached
\* to the layer, where it would count toward maxElements.
C26_FailedIsSkipped ==
  \A e \in BagToSet(activeElements) : e.load # "failed"

\* ------------------------------------------------------------------ C27
\* C27: once every initial stagger timer has fired, and while no element has
\* been removed, exactly min(maxElements, N) elements are attached, they are
\* made from pairwise distinct files, and none of their files is in filePool.
C27_InitialPopulation ==
  ( /\ staggerFired = Min(maxElements, Len(validFiles))
    /\ Attached = Created )
    => /\ Attached = Min(maxElements, Len(validFiles))
       /\ Cardinality(ActiveFiles) = Attached
       /\ ActiveFiles \cap Range(filePool) = {}

C27_Witness ==
  /\ staggerFired = maxElements
  /\ Attached = Created
  /\ Len(validFiles) > maxElements
  /\ \E e \in BagToSet(activeElements) : ~e.rising

\* ------------------------------------------------------------------ C28
\* C28: a callback in which removeRandomImage took an image out started with
\* more than floor(maxImages / 2) active images, so it leaves at least
\* floor(maxImages / 2) of them.
C28_RemovalKeepsHalf ==
  [][ lastCall'.removed # NoFile
        => /\ Len(activeImages) > maxImages \div 2
           /\ Len(activeImages') = Len(activeImages) - 1
           /\ Len(activeImages') >= maxImages \div 2 ]_vars

C28_Witness ==
  /\ lastCall.removed # NoFile
  /\ Len(activeImages) = maxImages \div 2
  /\ intervals = "set"

\* ------------------------------------------------------------------ C29
\* C29: no step changes the opacity or the size of a sample image that stays
\* on display, and an image that is not being dragged before nor after a
\* step is left exactly as it was.
C29_StyleFixedDragLocal ==
  [][ \A i \in 1..Len(activeImages), j \in 1..Len(activeImages') :
        activeImages'[j].file = activeImages[i].file
          => /\ activeImages'[j].opacity = activeImages[i].opacity
             /\ activeImages'[j].size = activeImages[i].size
             /\ ( ~activeImages[i].isDragging /\ ~activeImages'[j].isDragging )
                  => activeImages'[j] = activeImages[i] ]_vars

C29_Witness ==
  /\ Len(activeImages) >= 2
  /\ \E i \in 1..Len(activeImages) :
       /\ activeImages[i].isDragging /\ activeImages[i].moved
       /\ activeImages[i].zIndex = 101
  /\ \E i \in 1..Len(activeImages) :
       /\ ~activeImages[i].isDragging /\ ~activeImages[i].moved
       /\ activeImages[i].zIndex = 100
  /\ lastCall.removed # NoFile

C31_LimitInRange ==
  limit.variant # "none"
    => /\ 3 <= limit.max /\ limit.max <= 7
       /\ limit.max <= limitOf(limit.variant, limit.n + 1)

\* ------------------------------------------------------------------ C32
\* C32: the callback of a sprite that has lost its parent is called at most
\* once more; that call takes it off the ticker and does not call
\* painter.updateSprite.
C32_OrphanLeavesTicker ==
  \A i \in 1..Len(ticker.sprites) :
    LET s == ticker.sprites[i]
    IN /\ s.updatesOrphaned = 0
       /\ s.callsOrphaned <= 1
       /\ s.callsOrphaned = 1 => ~s.registered

C32_Witness ==
  /\ ticker.ticks = MaxTicks
  /\ \E i \in 1..Len(ticker.sprites) :
       LET s == ticker.sprites[i]
       IN ~s.parent /\ s.callsOrphaned = 1 /\ s.updates = 1 /\ ~s.registered
  /\ \E i \in 1..Len(ticker.sprites) : ticker.sprites[i].updates = MaxTicks

\* ------------------------------------------------------------------ C33
\* C33: once two renderPage calls have both finished, only the layers of
\* the later one are there: the document holds at most one attached DOM
\* container per layer type, and backgroundContainer holds no container
\* added by the earlier call.
C33_LatestRenderOnly ==
  ( Len(renders) >= 2 /\ \A r \in 1..Len(renders) : renders[r].at = "done" )
    => /\ \A l1, l2 \in pageLayers :
            l1.inDocument /\ l2.inDocument /\ l1.name = l2.name => l1 = l2
       /\ \A container \in backgroundContainer : container.render = Len(renders)

\* ------------------------------------------------------------------ C34
\* C34: an element whose offset on the X axis is beyond the bounce threshold
\* after a frame and still beyond it after the next frame has not had its
\* direction reversed by that frame, and the offset is never beyond the
\* threshold by more than the step of one frame.
C34_BounceReturns ==
  /\ [] ( Abs(motion.posX) <= bounceThresholdX(motion) + MaxDelta )
  /\ [][ ( /\ Abs(motion.posX) > bounceThresholdX(motion)
           /\ Abs(motion.posX') > bounceThresholdX(motion') )
           => motion.moveDirectionX' = motion.moveDirectionX ]_vars

\* ------------------------------------------------------------------ C35
\* C35: in the samples layer displayedFileIds is exactly the set of the
\* file ids of the active images, and no two active images show the same
\* file.
C35_DisplayedAreActive ==
  /\ displayedFileIds = { activeImages[i].file : i \in 1..Len(activeImages) }
  /\ \A i, j \in 1..Len(activeImages) :
       activeImages[i].file = activeImages[j].file => i = j

\* a creation has thrown and its file is free again, while two images or
\* more stay on display
C35_Witness ==
  /\ Len(activeImages) >= 2
  /\ lastCall.createThrew
  /\ lastCall.file \notin displayedFileIds
  /\ lastCall.file # NoFile
  /\ sequenceIndex # 0

\* ------------------------------------------------------------------ C36
\* C36: a sprite whose centre is outside the bounce bounds and that is not
\* being dragged is inside the bounds again after finitely many calls of
\* updateSprite.
C36_ReentersBounds ==
  ( sprite # NoSprite /\ ~InsideBounds ) ~> ( InsideBounds \/ sprite.dragging )

\* ------------------------------------------------------------------ C37
\* C37: at most one auto-close timer is pending, and a timer that was
\* scheduled before a call of openPanel, closePanel or cancelAutoClose does
\* not close the panel when it fires.
C37_NoStaleAutoClose ==
  /\ Cardinality(splash.timers) <= 1
  /\ ~splash.staleClosed

\* ------------------------------------------------------------------ C38
\* C38: after openPanel, with no later open or close call, the updates
\* bring the panel to OPEN at OPEN_X, and after closePanel to CLOSED at the
\* closed position of the sprite's current width; once there the panel
\* stays there until the next open or close call or change of width.
C38_Converges ==
  /\ ( splash.last = "openPanel" ) ~> ( splash.last # "openPanel" \/ isFullyOpen )
  /\ ( splash.last = "closePanel" ) ~> ( splash.last # "closePanel" \/ isFullyClosed )
  /\ [][ ( splash.last = "openPanel" /\ splash.last' = "openPanel" /\ isFullyOpen )
           => isFullyOpen' ]_vars
  /\ [][ ( /\ splash.last = "closePanel" /\ splash.last' = "closePanel"
           /\ splash.width' = splash.width /\ isFullyClosed )
           => isFullyClosed' ]_vars

\* ------------------------------------------------------------------ C39
\* C39: the hash is always '#mix' and two digits that name a mix from 1 to
\* MIX_COUNT; after a changeMix call it names the mix one further in the
\* direction of the call, or the same mix if that would be out of range.
C39_HashInRange ==
  /\ \E n \in 1..MIX_COUNT : hash.location = mixHash(n)
  /\ hash.last.difference # 0 =>
       \E n \in 1..MIX_COUNT :
         /\ hash.last.before = mixHash(n)
         /\ hash.location = IF n + hash.last.difference \in 1..MIX_COUNT
                            THEN mixHash(n + hash.last.difference)
                            ELSE mixHash(n)

\* a step forward from the last mix, taken after the player was paused,
\* has left the hash as it was, and a step back is waiting
C39_Witness ==
  /\ hash.last = [ difference |-> 1, before |-> mixHash(MIX_COUNT) ]
  /\ hash.location = mixHash(MIX_COUNT)
  /\ ~hash.scPlayer
  /\ hash.pending = << -1 >>

====
